---- MODULE Spec2Model ----
(***************************************************************************)
(* The three USDA converters of the FoodLog repository as one state        *)
(* machine: convert_branded.py (branded.sqlite), convert_fndds.py          *)
(* (fndds.sqlite) and scripts/process_usda_data.py (usda_foods.json).      *)
(* A behaviour is one run of one converter; Init picks the converter, the  *)
(* input files that are present and whether an artifact already exists.    *)
(*                                                                         *)
(* Python values: a float is an integer count of 1/100000 units; a value   *)
(* that may be None is <<v>> or None = <<>>; a conversion returns <<v>> or *)
(* ValueError = <<>> when it raises.                                       *)
(* A dict whose iteration order the code observes is a sequence of         *)
(* <<key, value>> pairs in insertion order; a dict that is only probed by  *)
(* key is a function on its key set.                                       *)
(***************************************************************************)
EXTENDS Integers, Sequences, FiniteSets, TLC

VARIABLES
    pipeline,             \* which converter runs
    pc,                   \* position of the run inside main()
    exception,            \* the exception that ended the run, "" while there is none
    present,              \* the input files that exist
    output,               \* the file at OUTPUT: "old", "absent" or "new"
    food_descriptions,    \* branded: fdc_id -> description
    branded_rows,         \* history: the branded_food.csv rows read so far
    branded_info,         \* branded: fdc_id -> info, in insertion order
    skipped_no_barcode,
    nutrients,            \* branded, reference: fdc_id -> (field -> amount)
    matched,              \* history, branded: the <<fdc_id, field>> pairs the scan had a row for
    cursor,               \* index of the next item of the write loop
    branded_foods,        \* table branded_foods, rows in rowid order
    row_origin,           \* history: the fdc_id whose iteration inserted each row
    inserted,
    skipped_no_desc,
    skipped_no_nutrients,
    foods,                \* survey: table foods
    foods_fts,            \* survey: table foods_fts
    survey_portions,      \* survey: table portions
    survey_source,        \* history: the SurveyFoods objects whose insert succeeded
    food_count,
    portion_count,
    ref_foods,            \* reference: foods, fdc_id -> description, in insertion order
    portions,             \* reference: fdc_id -> list of {desc, grams}
    portion_source,       \* history: the food_portion.csv rows that produced a portion
    db                    \* reference: the list build_database returns / the JSON written

vars == <<pipeline, pc, exception, present, output, food_descriptions, branded_rows, branded_info,
          skipped_no_barcode, nutrients, matched, cursor, branded_foods, row_origin, inserted,
          skipped_no_desc, skipped_no_nutrients, foods, foods_fts, survey_portions,
          survey_source, food_count, portion_count, ref_foods, portions, portion_source, db>>

scanVars == <<nutrients, matched>>
readVars == <<food_descriptions, branded_rows, branded_info, skipped_no_barcode>>
writeVars == <<cursor, branded_foods, row_origin, inserted, skipped_no_desc,
               skipped_no_nutrients>>
surveyVars == <<foods, foods_fts, survey_portions, survey_source, food_count, portion_count>>
referenceVars == <<ref_foods, portions, portion_source, db>>

-----------------------------------------------------------------------------
(* Bounds of the model *)

\* rows of branded_food.csv a run reads
MaxBrandedRows == 2
\* portions a run collects from food_portion.csv
MaxPortions == 1

-----------------------------------------------------------------------------
(* Python built-ins *)

None == <<>>
Some(v) == <<v>>
ValueError == <<>>
Raised(r) == r = ValueError

\* str.strip() for the blank character
RECURSIVE LStrip(_)
LStrip(s) == IF Len(s) > 0 /\ Head(s) = " " THEN LStrip(SubSeq(s, 2, Len(s))) ELSE s

RECURSIVE RStrip(_)
RStrip(s) ==
    IF Len(s) > 0 /\ SubSeq(s, Len(s), Len(s)) = " " THEN RStrip(SubSeq(s, 1, Len(s) - 1)) ELSE s

Strip(s) == RStrip(LStrip(s))

Digits == <<"0", "1", "2", "3", "4", "5", "6", "7", "8", "9">>

DigitValue(c) == CHOOSE d \in 0..9 : Digits[d + 1] = c

IsDigit(c) == \E d \in 0..9 : Digits[d + 1] = c

\* the value of a string of digits, read left to right
RECURSIVE DigitsValue(_, _)
DigitsValue(s, acc) ==
    IF Len(s) = 0 THEN acc
    ELSE DigitsValue(SubSeq(s, 2, Len(s)), 10 * acc + DigitValue(Head(s)))

AllDigits(s) == \A i \in 1..Len(s) : IsDigit(SubSeq(s, i, i))

\* position of the first "." of s, 0 when there is none
DotAt(s) ==
    IF \E i \in 1..Len(s) : SubSeq(s, i, i) = "."
    THEN CHOOSE i \in 1..Len(s) :
            SubSeq(s, i, i) = "." /\ \A j \in 1..(i - 1) : SubSeq(s, j, j) # "."
    ELSE 0

\* ten to the n
RECURSIVE Pow10(_)
Pow10(n) == IF n = 0 THEN 1 ELSE 10 * Pow10(n - 1)

\* float(s) for an unsigned decimal literal of at most five fraction digits
ParseUnsigned(s) ==
    LET dot == DotAt(s)
        whole == IF dot = 0 THEN s ELSE SubSeq(s, 1, dot - 1)
        frac == IF dot = 0 THEN "" ELSE SubSeq(s, dot + 1, Len(s))
    IN  IF Len(whole) + Len(frac) = 0 \/ ~AllDigits(whole) \/ ~AllDigits(frac) \/ Len(frac) > 5
        THEN ValueError
        ELSE Some(DigitsValue(whole, 0) * 100000 + DigitsValue(frac, 0) * Pow10(5 - Len(frac)))

\* float(s): surrounding blanks and one sign are accepted, anything else raises
ParseFloat(s) ==
    LET t == Strip(s)
        neg == Len(t) > 0 /\ Head(t) = "-"
        body == IF Len(t) > 0 /\ Head(t) \in {"-", "+"} THEN SubSeq(t, 2, Len(t)) ELSE t
        v == ParseUnsigned(body)
    IN  IF Raised(v) THEN ValueError ELSE IF neg THEN Some(0 - v[1]) ELSE v

\* int(s) for a string
ParseInt(s) ==
    LET t == Strip(s)
        neg == Len(t) > 0 /\ Head(t) = "-"
        body == IF Len(t) > 0 /\ Head(t) \in {"-", "+"} THEN SubSeq(t, 2, Len(t)) ELSE t
    IN  IF Len(body) = 0 \/ ~AllDigits(body) THEN ValueError
        ELSE IF neg THEN Some(0 - DigitsValue(body, 0)) ELSE Some(DigitsValue(body, 0))

\* str(n) for a natural number
RECURSIVE NatStr(_)
NatStr(n) == IF n < 10 THEN Digits[n + 1] ELSE NatStr(n \div 10) \o Digits[(n % 10) + 1]

\* the fraction digits of str(float): k digits of f, trailing zeros dropped, at least one kept
RECURSIVE FracStr(_, _)
FracStr(f, k) ==
    IF k > 1 /\ f % 10 = 0 THEN FracStr(f \div 10, k - 1)
    ELSE IF k = 1 THEN Digits[f + 1]
    ELSE FracStr(f \div 10, k - 1) \o Digits[(f % 10) + 1]

\* str(x) for a float x: always a decimal point and at least one fraction digit
FormatFloat(x) ==
    LET a == IF x < 0 THEN 0 - x ELSE x
    IN  (IF x < 0 THEN "-" ELSE "") \o NatStr(a \div 100000) \o "." \o FracStr(a % 100000, 5)

\* round(x, n) for n <= 5 decimal places: to the nearest multiple, an exact tie to the even one
Round(x, n) ==
    LET unit == Pow10(5 - n)
        a == IF x < 0 THEN 0 - x ELSE x
        q == a \div unit
        r == a % unit
        up == (2 * r > unit) \/ (2 * r = unit /\ q % 2 = 1)
        m == (IF up THEN q + 1 ELSE q) * unit
    IN  IF x < 0 THEN 0 - m ELSE m

\* dict probed by key: d[k] = v
DictPut(d, k, v) == [x \in (DOMAIN d) \cup {k} |-> IF x = k THEN v ELSE d[x]]

\* dict.get(k, default)
DictGet(d, k, default) == IF k \in DOMAIN d THEN d[k] ELSE default

\* insertion-ordered dict: k in od
HasKey(od, k) == \E i \in 1..Len(od) : od[i][1] = k

\* od[k] = v: a present key keeps its position and takes the new value
OrderedPut(od, k, v) ==
    IF HasKey(od, k)
    THEN [i \in 1..Len(od) |-> IF od[i][1] = k THEN <<k, v>> ELSE od[i]]
    ELSE Append(od, <<k, v>>)

OrderedGet(od, k) == od[CHOOSE i \in 1..Len(od) : od[i][1] = k][2]

\* x or None
OrNone(s) == IF s = "" THEN None ELSE Some(s)

-----------------------------------------------------------------------------
(* Input domains: the rows and objects the sources may hold *)

\* the fdc_id column as the CSV files spell it
FdcIdStrings == {"1", "2"}

\* rows of the branded food.csv
FoodCsvRows ==
    [fdc_id : FdcIdStrings, data_type : {"branded_food", "sr_legacy_food"},
     description : {"Cheddar cheese"}]

\* the columns of a branded_food.csv row besides fdc_id
BrandedCsvShapes ==
    { [gtin_upc |-> "", brand_owner |-> "Acme", brand_name |-> "", serving_size |-> "30",
       serving_size_unit |-> "g", household_serving_fulltext |-> "1 cup"],
      [gtin_upc |-> "00099999", brand_owner |-> "Acme", brand_name |-> "", serving_size |-> "30",
       serving_size_unit |-> "g", household_serving_fulltext |-> "1 cup"],
      [gtin_upc |-> " 00099999", brand_owner |-> " ", brand_name |-> "Bolt",
       serving_size |-> "abc", serving_size_unit |-> "", household_serving_fulltext |-> ""],
      [gtin_upc |-> "00012345", brand_owner |-> "", brand_name |-> "", serving_size |-> "",
       serving_size_unit |-> "g", household_serving_fulltext |-> ""] }

BrandedCsvRows ==
    { [fdc_id |-> f, gtin_upc |-> r.gtin_upc, brand_owner |-> r.brand_owner,
       brand_name |-> r.brand_name, serving_size |-> r.serving_size,
       serving_size_unit |-> r.serving_size_unit,
       household_serving_fulltext |-> r.household_serving_fulltext] :
      f \in FdcIdStrings, r \in BrandedCsvShapes }

\* the nutrient_id and amount columns of a food_nutrient.csv row
NutrientCsvShapes ==
    { <<"1008", "403">>, <<"1008", "-1">>, <<"1003", "abc">>, <<"1003", "">>,
      <<"9999", "5">>, <<"x", "5">> }

NutrientCsvRows ==
    { [fdc_id |-> f, nutrient_id |-> r[1], amount |-> r[2]] :
      f \in FdcIdStrings, r \in NutrientCsvShapes }

-----------------------------------------------------------------------------
(* convert_branded.py *)

BrandedInputs == {"food.csv", "branded_food.csv", "food_nutrient.csv"}

NUTRIENT_IDS ==
    (1008 :> "calories") @@ (1003 :> "protein_g") @@ (1004 :> "fat_g") @@ (1005 :> "carbs_g")
    @@ (1079 :> "fiber_g") @@ (2000 :> "sugar_g") @@ (1093 :> "sodium_mg")
    @@ (1258 :> "saturated_fat_g")

\* the nutrient columns of table branded_foods
BrandedColumns == {NUTRIENT_IDS[i] : i \in DOMAIN NUTRIENT_IDS}

\* the check of the inputs left out
InputsNotChecked(required) == FALSE

\* for path in [...]: if not os.path.exists(path): sys.exit(1)
InputsMissing(required) == required \ present # {}

CheckInputs ==
    /\ pipeline = "branded" /\ pc = "start"
    /\ IF InputsMissing(BrandedInputs)
       THEN pc' = "error" /\ exception' = "SystemExit"
       ELSE pc' = "food" /\ UNCHANGED exception
    /\ UNCHANGED <<pipeline, present, output, readVars, scanVars, writeVars, surveyVars,
                   referenceVars>>

\* Step 1: one row of food.csv
ReadFoodRow(row) ==
    /\ pipeline = "branded" /\ pc = "food"
    /\ food_descriptions' =
          IF row.data_type = "branded_food"
          THEN DictPut(food_descriptions, row.fdc_id, row.description)
          ELSE food_descriptions
    /\ UNCHANGED <<pipeline, exception, pc, present, output, branded_rows, branded_info,
                   skipped_no_barcode,
                   scanVars, writeVars, surveyVars, referenceVars>>

EndFood ==
    /\ pipeline = "branded" /\ pc = "food"
    /\ pc' = "branded"
    /\ UNCHANGED <<pipeline, exception, present, output, readVars, scanVars, writeVars, surveyVars,
                   referenceVars>>

\* float(serving_size) if serving_size else None, None on ValueError
ServingSize(s) ==
    IF s = "" THEN None ELSE IF Raised(ParseFloat(s)) THEN None ELSE ParseFloat(s)

\* the dict stored in branded_info for a row that has a barcode
BrandedInfo(row) ==
    [barcode |-> Strip(row.gtin_upc),
     brand |-> IF Strip(row.brand_owner) # "" THEN Strip(row.brand_owner)
               ELSE Strip(row.brand_name),
     serving_size |-> ServingSize(row.serving_size),
     serving_unit |-> Strip(row.serving_size_unit),
     household_serving |-> Strip(row.household_serving_fulltext)]

\* Step 2: one row of branded_food.csv
ReadBrandedRow(row) ==
    /\ pipeline = "branded" /\ pc = "branded"
    /\ Len(branded_rows) < MaxBrandedRows
    /\ branded_rows' = Append(branded_rows, row)
    /\ IF Strip(row.gtin_upc) = ""
       THEN /\ skipped_no_barcode' = skipped_no_barcode + 1
            /\ UNCHANGED branded_info
       ELSE /\ branded_info' = OrderedPut(branded_info, row.fdc_id, BrandedInfo(row))
            /\ UNCHANGED skipped_no_barcode
    /\ UNCHANGED <<pipeline, exception, pc, present, output, food_descriptions, scanVars, writeVars,
                   surveyVars, referenceVars>>

EndBranded ==
    /\ pipeline = "branded" /\ pc = "branded"
    /\ pc' = "nutrient"
    /\ UNCHANGED <<pipeline, exception, present, output, readVars, scanVars, writeVars, surveyVars,
                   referenceVars>>

\* target_fdc_ids = set(branded_info.keys())
target_fdc_ids == {branded_info[i][1] : i \in 1..Len(branded_info)}

\* float(row.get("amount", 0) or 0), 0.0 on ValueError
BrandedAmount(s) ==
    IF s = "" THEN 0 ELSE IF Raised(ParseFloat(s)) THEN 0 ELSE ParseFloat(s)[1]

\* nutrients[fdc_id][field] = amount, creating the profile on first use
Accumulate(acc, fdc_id, field, amount) ==
    DictPut(acc, fdc_id, DictPut(DictGet(acc, fdc_id, <<>>), field, amount))

\* the history of the scan: the rows of a target key and a canonical nutrient
Matches(fdc_id, nutrient_id) ==
    IF fdc_id \in target_fdc_ids /\ ~Raised(nutrient_id)
       /\ nutrient_id[1] \in DOMAIN NUTRIENT_IDS
    THEN matched \cup {<<fdc_id, NUTRIENT_IDS[nutrient_id[1]]>>}
    ELSE matched

\* Step 3: one row of food_nutrient.csv
ReadNutrientRow(row) ==
    /\ pipeline = "branded" /\ pc = "nutrient"
    /\ LET fdc_id == row.fdc_id
           nutrient_id == ParseInt(row.nutrient_id)
       IN  /\ matched' = Matches(fdc_id, nutrient_id)
           /\ nutrients' =
                 IF fdc_id \notin target_fdc_ids THEN nutrients
                 ELSE IF Raised(nutrient_id) THEN nutrients
                 ELSE IF nutrient_id[1] \notin DOMAIN NUTRIENT_IDS THEN nutrients
                 ELSE Accumulate(nutrients, fdc_id, NUTRIENT_IDS[nutrient_id[1]],
                                 BrandedAmount(row.amount))
    /\ UNCHANGED <<pipeline, exception, pc, present, output, readVars, writeVars, surveyVars,
                   referenceVars>>

EndNutrient ==
    /\ pipeline = "branded" /\ pc = "nutrient"
    /\ pc' = "clear"
    /\ UNCHANGED <<pipeline, exception, present, output, readVars, scanVars, writeVars, surveyVars,
                   referenceVars>>

\* if os.path.exists(OUTPUT): os.remove(OUTPUT)
ClearOutput ==
    /\ pipeline = "branded" /\ pc = "clear"
    /\ output' = "absent"
    /\ pc' = "create"
    /\ UNCHANGED <<pipeline, exception, present, readVars, scanVars, writeVars, surveyVars,
                   referenceVars>>

\* os.makedirs, sqlite3.connect(OUTPUT) and CREATE TABLE, which commits at once
CreateStore ==
    /\ pipeline = "branded" /\ pc = "create"
    /\ output' = "new"
    /\ pc' = "write"
    /\ UNCHANGED <<pipeline, exception, present, readVars, scanVars, writeVars, surveyVars,
                   referenceVars>>

\* the tuple bound to insert_sql, with None where the profile lacks a field
BrandedRowNull(info, description, nutr) ==
    [barcode |-> info.barcode,
     description |-> description,
     brand |-> OrNone(info.brand),
     serving_size |-> info.serving_size,
     serving_unit |-> OrNone(info.serving_unit),
     household_serving |-> OrNone(info.household_serving),
     nutr |-> [c \in BrandedColumns |-> DictGet([x \in DOMAIN nutr |-> Some(nutr[x])], c, None)]]

\* the tuple bound to insert_sql; a column value is Some(real), None being SQL NULL
BrandedRow(info, description, nutr) ==
    [barcode |-> info.barcode,
     description |-> description,
     brand |-> OrNone(info.brand),
     serving_size |-> info.serving_size,
     serving_unit |-> OrNone(info.serving_unit),
     household_serving |-> OrNone(info.household_serving),
     nutr |-> [c \in BrandedColumns |-> Some(DictGet(nutr, c, 0))]]

\* a table without its PRIMARY KEY: no insert conflicts
NoConflict(table, row) == FALSE

\* does INSERT OR IGNORE hit the PRIMARY KEY of a stored row
BarcodeConflict(table, row) == \E i \in 1..Len(table) : table[i].barcode = row.barcode

\* a plain INSERT that the key does not stop
InsertPlain(table, row) == Append(table, row)

\* INSERT OR IGNORE INTO branded_foods
InsertOrIgnore(table, row) == IF BarcodeConflict(table, row) THEN table ELSE Append(table, row)

\* "not nutr" for a dict that holds nothing, though every row the scan saw was for it
NoProfileEver(nutr) == FALSE

\* "not nutr": the dict is empty
NoProfile(nutr) == DOMAIN nutr = {}

\* Step 4: one iteration of the loop over branded_info.items()
WriteBranded ==
    /\ pipeline = "branded" /\ pc = "write"
    /\ cursor <= Len(branded_info)
    /\ LET fdc_id == branded_info[cursor][1]
           info == branded_info[cursor][2]
           description == DictGet(food_descriptions, fdc_id, "")
           nutr == DictGet(nutrients, fdc_id, <<>>)
           row == BrandedRow(info, description, nutr)
       IN  IF description = ""
           THEN /\ skipped_no_desc' = skipped_no_desc + 1
                /\ UNCHANGED <<branded_foods, row_origin, inserted, skipped_no_nutrients>>
           ELSE IF NoProfile(nutr)
           THEN /\ skipped_no_nutrients' = skipped_no_nutrients + 1
                /\ UNCHANGED <<branded_foods, row_origin, inserted, skipped_no_desc>>
           ELSE /\ branded_foods' = InsertOrIgnore(branded_foods, row)
                /\ row_origin' = IF Len(branded_foods') = Len(branded_foods) THEN row_origin
                                 ELSE Append(row_origin, fdc_id)
                /\ inserted' = inserted + 1
                /\ UNCHANGED <<skipped_no_desc, skipped_no_nutrients>>
    /\ cursor' = cursor + 1
    /\ UNCHANGED <<pipeline, exception, pc, present, output, readVars, scanVars, surveyVars,
                   referenceVars>>

\* conn.commit() after the loop
CommitBranded ==
    /\ pipeline = "branded" /\ pc = "write"
    /\ cursor > Len(branded_info)
    /\ pc' = "done"
    /\ UNCHANGED <<pipeline, exception, present, output, readVars, scanVars, writeVars, surveyVars,
                   referenceVars>>

\* SELECT COUNT(*) FROM branded_foods
row_count == Len(branded_foods)

-----------------------------------------------------------------------------
(* convert_fndds.py *)

SurveyInputs == {"surveyDownload.json"}

NUTRIENT_COLUMNS ==
    (1008 :> "energy_kcal") @@ (1003 :> "protein_g") @@ (1004 :> "fat_g")
    @@ (1005 :> "carbohydrate_g") @@ (1079 :> "fiber_g") @@ (2000 :> "sugar_g")
    @@ (1258 :> "saturated_fat_g") @@ (1292 :> "monounsaturated_fat_g")
    @@ (1293 :> "polyunsaturated_fat_g") @@ (1253 :> "cholesterol_mg")
    @@ (1087 :> "calcium_mg") @@ (1089 :> "iron_mg") @@ (1090 :> "magnesium_mg")
    @@ (1091 :> "phosphorus_mg") @@ (1092 :> "potassium_mg") @@ (1093 :> "sodium_mg")
    @@ (1095 :> "zinc_mg") @@ (1098 :> "copper_mg") @@ (1103 :> "selenium_mcg")
    @@ (1162 :> "vitamin_c_mg") @@ (1165 :> "thiamin_mg") @@ (1166 :> "riboflavin_mg")
    @@ (1167 :> "niacin_mg") @@ (1175 :> "vitamin_b6_mg") @@ (1190 :> "folate_dfe_mcg")
    @@ (1178 :> "vitamin_b12_mcg") @@ (1106 :> "vitamin_a_rae_mcg") @@ (1109 :> "vitamin_e_mg")
    @@ (1114 :> "vitamin_d_mcg") @@ (1185 :> "vitamin_k_mcg") @@ (1057 :> "caffeine_mg")
    @@ (1051 :> "water_g")

\* the foodNutrients arrays a survey food may carry: id and amount may each be null
SurveyNutrientLists ==
    { <<>>,
      <<[id |-> Some(1003), amount |-> Some(30000)]>>,
      <<[id |-> Some(9999), amount |-> Some(500000)]>>,
      <<[id |-> Some(1008), amount |-> None], [id |-> Some(1003), amount |-> Some(-100000)]>>,
      <<[id |-> None, amount |-> Some(100000)]>> }

\* the foodPortions arrays a survey food may carry: gramWeight may be null
SurveyPortionLists ==
    { <<>>,
      <<[gramWeight |-> Some(18200000), portionDescription |-> "1 medium"]>>,
      <<[gramWeight |-> Some(0), portionDescription |-> "cup"],
        [gramWeight |-> Some(18200000), portionDescription |-> ""]>>,
      <<[gramWeight |-> Some(-500000), portionDescription |-> "cup"]>>,
      <<[gramWeight |-> None, portionDescription |-> "cup"]>> }

\* the objects of data["SurveyFoods"]
SurveyFoodObjects ==
    [foodCode : {None, Some(0), Some(55001), Some(55002)},
     description : {None, Some(""), Some("Apple, raw")},
     foodNutrients : SurveyNutrientLists,
     foodPortions : SurveyPortionLists]

\* with open(INPUT) as f: data = json.load(f)
LoadSurvey ==
    /\ pipeline = "survey" /\ pc = "start"
    /\ IF InputsMissing(SurveyInputs)
       THEN pc' = "error" /\ exception' = "FileNotFoundError"
       ELSE pc' = "clear" /\ UNCHANGED exception
    /\ UNCHANGED <<pipeline, present, output, readVars, scanVars, writeVars, surveyVars,
                   referenceVars>>

\* if os.path.exists(OUTPUT): os.remove(OUTPUT)
SurveyClearOutput ==
    /\ pipeline = "survey" /\ pc = "clear"
    /\ output' = "absent"
    /\ pc' = "create"
    /\ UNCHANGED <<pipeline, exception, present, readVars, scanVars, writeVars, surveyVars,
                   referenceVars>>

\* sqlite3.connect(OUTPUT) and the three CREATE statements, which commit at once
SurveyCreateStore ==
    /\ pipeline = "survey" /\ pc = "create"
    /\ output' = "new"
    /\ pc' = "write"
    /\ UNCHANGED <<pipeline, exception, present, readVars, scanVars, writeVars, surveyVars,
                   referenceVars>>

\* nutrient_map after the loop over the first k entries of foodNutrients
RECURSIVE NutrientMap(_, _)
NutrientMap(list, k) ==
    IF k = 0 THEN <<>>
    ELSE LET n == list[k]
             prev == NutrientMap(list, k - 1)
         IN  IF n.id # None /\ n.id[1] # 0 /\ n.id[1] \in DOMAIN NUTRIENT_COLUMNS
             THEN DictPut(prev, n.id[1],
                          IF n.amount = None THEN 0 ELSE n.amount[1])
             ELSE prev

\* the values bound to insert_food_sql
SurveyRow(food) ==
    LET nutrient_map == NutrientMap(food.foodNutrients, Len(food.foodNutrients))
    IN  [food_code |-> food.foodCode[1],
         description |-> food.description[1],
         nutr |-> [nid \in DOMAIN NUTRIENT_COLUMNS |-> Some(DictGet(nutrient_map, nid, 0))]]

\* the portions of a food that pass "gram_weight > 0 and portion_desc"
SurveyPortionsOf(food) ==
    SelectSeq(food.foodPortions,
              LAMBDA p : p.gramWeight[1] > 0 /\ p.portionDescription # "")

\* the rows the portion loop adds, ids continuing the AUTOINCREMENT sequence
AppendPortions(table, food_code, list) ==
    table \o [i \in 1..Len(list) |->
                 [id |-> Len(table) + i, food_code |-> food_code,
                  description |-> list[i].portionDescription,
                  gram_weight |-> list[i].gramWeight[1]]]

\* INSERT INTO foods fails: the key is taken, or description is NULL
FoodsInsertFails(table, food) ==
    \/ \E i \in 1..Len(table) : table[i].food_code = food.foodCode[1]
    \/ food.description = None

\* "gram_weight > 0" raises TypeError for a null gramWeight
PortionCompareFails(food) ==
    \E i \in 1..Len(food.foodPortions) : food.foodPortions[i].gramWeight = None

\* the index row written under the position of the food instead of its code
FtsRowByPosition(food) ==
    [description |-> food.description[1], food_code |-> Len(foods_fts) + 1]

\* the values bound to INSERT INTO foods_fts
FtsRow(food) == [description |-> food.description[1], food_code |-> food.foodCode[1]]

\* one iteration of "for food in foods"
InsertSurveyFood(food) ==
    /\ pipeline = "survey" /\ pc = "write"
    /\ IF food.foodCode = None \/ food.foodCode = Some(0) \/ food.foodNutrients = <<>>
       THEN UNCHANGED <<pc, exception, surveyVars>>
       ELSE IF FoodsInsertFails(foods, food) \/ PortionCompareFails(food)
       THEN \* the exception ends the run; the open transaction is never committed
            /\ pc' = "error"
            /\ exception' = IF FoodsInsertFails(foods, food) THEN "IntegrityError"
                             ELSE "TypeError"
            /\ foods' = <<>>
            /\ foods_fts' = <<>>
            /\ survey_portions' = <<>>
            /\ survey_source' = <<>>
            /\ UNCHANGED <<food_count, portion_count>>
       ELSE /\ foods' = Append(foods, SurveyRow(food))
            /\ foods_fts' = Append(foods_fts, FtsRow(food))
            /\ survey_portions' =
                  AppendPortions(survey_portions, food.foodCode[1], SurveyPortionsOf(food))
            /\ survey_source' = Append(survey_source, food)
            /\ portion_count' = portion_count + Len(SurveyPortionsOf(food))
            /\ food_count' = food_count + 1
            /\ UNCHANGED <<pc, exception>>
    /\ UNCHANGED <<pipeline, present, output, readVars, scanVars, writeVars, referenceVars>>

\* conn.commit() after the loop
CommitSurvey ==
    /\ pipeline = "survey" /\ pc = "write"
    /\ pc' = "done"
    /\ UNCHANGED <<pipeline, exception, present, output, readVars, scanVars, writeVars, surveyVars,
                   referenceVars>>

-----------------------------------------------------------------------------
(* scripts/process_usda_data.py *)
(* Download and extraction are outside the model; the category name that    *)
(* build_database copies into an entry is left out of the entries.          *)

ReferenceInputs == {"food.csv", "food_category.csv", "food_nutrient.csv", "food_portion.csv"}

NUTRIENT_MAP ==
    (1008 :> "calories") @@ (1004 :> "totalFat") @@ (1258 :> "saturatedFat")
    @@ (1292 :> "monounsaturatedFat") @@ (1293 :> "polyunsaturatedFat") @@ (1003 :> "protein")
    @@ (1005 :> "carbohydrates") @@ (1079 :> "fiber") @@ (2000 :> "sugar")
    @@ (1253 :> "cholesterol") @@ (1106 :> "vitaminA") @@ (1175 :> "vitaminB6")
    @@ (1178 :> "vitaminB12") @@ (1162 :> "vitaminC") @@ (1114 :> "vitaminD")
    @@ (1109 :> "vitaminE") @@ (1185 :> "vitaminK") @@ (1165 :> "thiamin")
    @@ (1166 :> "riboflavin") @@ (1167 :> "niacin") @@ (1177 :> "folate") @@ (1176 :> "biotin")
    @@ (1170 :> "pantothenicAcid") @@ (1087 :> "calcium") @@ (1089 :> "iron")
    @@ (1090 :> "magnesium") @@ (1101 :> "manganese") @@ (1091 :> "phosphorus")
    @@ (1092 :> "potassium") @@ (1093 :> "sodium") @@ (1095 :> "zinc") @@ (1096 :> "chromium")
    @@ (1098 :> "copper") @@ (1100 :> "iodine") @@ (1102 :> "molybdenum")
    @@ (1103 :> "selenium") @@ (1088 :> "chloride") @@ (1051 :> "water") @@ (1057 :> "caffeine")

\* rows of the reference food.csv; "01" and "1" are the same key once int() has read them
RefFoodCsvRows == [fdc_id : {"1", "01", "2"}, description : {"Butter, salted", ""}]

RefNutrientCsvShapes ==
    { <<"1008", "403">>, <<"1008", "0.12346">>, <<"1003", "abc">>, <<"1003", "">>,
      <<"9999", "5">>, <<"x", "5">> }

RefNutrientCsvRows ==
    { [fdc_id |-> f, nutrient_id |-> r[1], amount |-> r[2]] :
      f \in FdcIdStrings, r \in RefNutrientCsvShapes }

\* the columns of a food_portion.csv row besides fdc_id
PortionCsvShapes ==
    { [modifier |-> "slice", portion_description |-> "", gram_weight |-> "30", amount |-> "2"],
      [modifier |-> "", portion_description |-> "1 cup", gram_weight |-> "182.04",
       amount |-> "1.0"],
      [modifier |-> "slice", portion_description |-> "", gram_weight |-> "0", amount |-> ""],
      [modifier |-> " ", portion_description |-> "", gram_weight |-> "-5", amount |-> "abc"],
      [modifier |-> "slice", portion_description |-> "", gram_weight |-> "", amount |-> "1"],
      [modifier |-> "slice", portion_description |-> "", gram_weight |-> "abc", amount |-> "1"],
      [modifier |-> "", portion_description |-> "", gram_weight |-> "30", amount |-> "0.5"] }

PortionCsvRows ==
    { [fdc_id |-> f, modifier |-> r.modifier, portion_description |-> r.portion_description,
       gram_weight |-> r.gram_weight, amount |-> r.amount] :
      f \in FdcIdStrings, r \in PortionCsvShapes }

\* find_csv raises FileNotFoundError when the file is not under the extract directory
find_csv(name) == name \in present

\* load_foods opens food.csv
OpenRefFoods ==
    /\ pipeline = "reference" /\ pc = "start"
    /\ IF find_csv("food.csv")
       THEN pc' = "food" /\ UNCHANGED exception
       ELSE pc' = "error" /\ exception' = "FileNotFoundError"
    /\ UNCHANGED <<pipeline, present, output, readVars, scanVars, writeVars, surveyVars,
                   referenceVars>>

\* load_foods: one row of food.csv
ReadRefFoodRow(row) ==
    /\ pipeline = "reference" /\ pc = "food"
    /\ ref_foods' = OrderedPut(ref_foods, ParseInt(row.fdc_id)[1], row.description)
    /\ UNCHANGED <<pipeline, exception, pc, present, output, readVars, scanVars, writeVars,
                   surveyVars,
                   portions, portion_source, db>>

\* load_categories, whose rows are not modelled
LoadCategories ==
    /\ pipeline = "reference" /\ pc = "food"
    /\ IF find_csv("food_category.csv")
       THEN pc' = "categories" /\ UNCHANGED exception
       ELSE pc' = "error" /\ exception' = "FileNotFoundError"
    /\ UNCHANGED <<pipeline, present, output, readVars, scanVars, writeVars, surveyVars,
                   referenceVars>>

\* load_food_categories, whose rows are not modelled
LoadFoodCategories ==
    /\ pipeline = "reference" /\ pc = "categories"
    /\ IF find_csv("food.csv")
       THEN pc' = "food_cats" /\ UNCHANGED exception
       ELSE pc' = "error" /\ exception' = "FileNotFoundError"
    /\ UNCHANGED <<pipeline, present, output, readVars, scanVars, writeVars, surveyVars,
                   referenceVars>>

\* set(foods.keys())
food_ids == {ref_foods[i][1] : i \in 1..Len(ref_foods)}

\* load_nutrients opens food_nutrient.csv
OpenRefNutrients ==
    /\ pipeline = "reference" /\ pc = "food_cats"
    /\ IF find_csv("food_nutrient.csv")
       THEN pc' = "nutrient" /\ UNCHANGED exception
       ELSE pc' = "error" /\ exception' = "FileNotFoundError"
    /\ UNCHANGED <<pipeline, present, output, readVars, scanVars, writeVars, surveyVars,
                   referenceVars>>

\* load_nutrients: one row of food_nutrient.csv
ReadRefNutrientRow(row) ==
    /\ pipeline = "reference" /\ pc = "nutrient"
    /\ LET fdc_id == ParseInt(row.fdc_id)[1]
           nutrient_id == ParseInt(row.nutrient_id)
           amount == ParseFloat(row.amount)
       IN  /\ UNCHANGED matched
           /\ IF fdc_id \notin food_ids
              THEN UNCHANGED <<pc, exception, nutrients>>
              ELSE IF Raised(nutrient_id)
              THEN \* int(row['nutrient_id']) is not guarded: the run ends
                   /\ pc' = "error"
                   /\ exception' = "ValueError"
                   /\ UNCHANGED nutrients
              ELSE IF nutrient_id[1] \notin DOMAIN NUTRIENT_MAP
              THEN UNCHANGED <<pc, exception, nutrients>>
              ELSE IF row.amount = "" \/ Raised(amount)
              THEN UNCHANGED <<pc, exception, nutrients>>
              ELSE /\ nutrients' = Accumulate(nutrients, fdc_id, NUTRIENT_MAP[nutrient_id[1]],
                                              Round(amount[1], 4))
                   /\ UNCHANGED <<pc, exception>>
    /\ UNCHANGED <<pipeline, present, output, readVars, writeVars, surveyVars, referenceVars>>

\* load_portions opens food_portion.csv
OpenPortions ==
    /\ pipeline = "reference" /\ pc = "nutrient"
    /\ IF find_csv("food_portion.csv")
       THEN pc' = "portion" /\ UNCHANGED exception
       ELSE pc' = "error" /\ exception' = "FileNotFoundError"
    /\ UNCHANGED <<pipeline, present, output, readVars, scanVars, writeVars, surveyVars,
                   referenceVars>>

\* row.get('modifier', '') or row.get('portion_description', '')
PortionText(row) == IF row.modifier # "" THEN row.modifier ELSE row.portion_description

\* float(amount), 1.0 on ValueError
Multiplier(s) == IF Raised(ParseFloat(s)) THEN 100000 ELSE ParseFloat(s)[1]

\* the description after the multiplier has been put in front of it
PortionDesc(desc, amt) == IF amt # 100000 THEN FormatFloat(amt) \o " " \o desc ELSE desc

\* does the row pass both "continue" tests of load_portions
PortionAccepted(row) ==
    /\ row.gram_weight # ""
    /\ PortionText(row) # ""
    /\ ~Raised(ParseFloat(row.gram_weight))

\* the dict appended to portions[fdc_id]
Portion(row) ==
    [desc |-> Strip(PortionDesc(PortionText(row), Multiplier(row.amount))),
     grams |-> Round(ParseFloat(row.gram_weight)[1], 1)]

\* load_portions: one row of food_portion.csv
ReadPortionRow(row) ==
    /\ pipeline = "reference" /\ pc = "portion"
    /\ LET fdc_id == ParseInt(row.fdc_id)[1]
       IN  IF fdc_id \in food_ids /\ PortionAccepted(row)
           THEN /\ Len(portion_source) < MaxPortions
                /\ portions' = DictPut(portions, fdc_id,
                                       Append(DictGet(portions, fdc_id, <<>>), Portion(row)))
                /\ portion_source' = Append(portion_source, row)
           ELSE UNCHANGED <<portions, portion_source>>
    /\ UNCHANGED <<pipeline, exception, pc, present, output, readVars, scanVars, writeVars,
                   surveyVars,
                   ref_foods, db>>

UpperCase == "ABCDEFGHIJKLMNOPQRSTUVWXYZ"
LowerCase == "abcdefghijklmnopqrstuvwxyz"

\* the characters of the descriptions, in code point order
CodePoints == " ,-.0123456789" \o UpperCase \o LowerCase

IndexIn(alphabet, c) ==
    IF \E i \in 1..Len(alphabet) : SubSeq(alphabet, i, i) = c
    THEN CHOOSE i \in 1..Len(alphabet) : SubSeq(alphabet, i, i) = c
    ELSE 0

\* str.lower()
RECURSIVE Lower(_)
Lower(s) ==
    IF Len(s) = 0 THEN ""
    ELSE LET c == SubSeq(s, 1, 1)
             u == IndexIn(UpperCase, c)
         IN  (IF u = 0 THEN c ELSE SubSeq(LowerCase, u, u)) \o Lower(SubSeq(s, 2, Len(s)))

\* a < b for strings
RECURSIVE StrLess(_, _)
StrLess(a, b) ==
    IF Len(b) = 0 THEN FALSE
    ELSE IF Len(a) = 0 THEN TRUE
    ELSE LET x == IndexIn(CodePoints, SubSeq(a, 1, 1))
             y == IndexIn(CodePoints, SubSeq(b, 1, 1))
         IN  IF x # y THEN x < y ELSE StrLess(SubSeq(a, 2, Len(a)), SubSeq(b, 2, Len(b)))

\* the entry build_database makes of one food; an entry without "portions" has none
Entry(fdc_id, name) ==
    [id |-> fdc_id, name |-> name, nutrients |-> nutrients[fdc_id],
     portions |-> DictGet(portions, fdc_id, <<>>)]

\* db after the loop over the first k items of foods
RECURSIVE Entries(_)
Entries(k) ==
    IF k = 0 THEN <<>>
    ELSE IF ref_foods[k][1] \notin DOMAIN nutrients THEN Entries(k - 1)
    ELSE Append(Entries(k - 1), Entry(ref_foods[k][1], ref_foods[k][2]))

\* put e after every entry whose key is not greater: one step of a stable sort
InsertByName(sorted, e) ==
    LET after == {i \in 1..Len(sorted) : ~StrLess(Lower(e.name), Lower(sorted[i].name))}
        k == Cardinality(after)
    IN  SubSeq(sorted, 1, k) \o <<e>> \o SubSeq(sorted, k + 1, Len(sorted))

\* db.sort(key=lambda x: x["name"].lower())
RECURSIVE SortByName(_)
SortByName(list) ==
    IF Len(list) = 0 THEN <<>>
    ELSE InsertByName(SortByName(SubSeq(list, 1, Len(list) - 1)), list[Len(list)])

\* build_database
BuildDatabase ==
    /\ pipeline = "reference" /\ pc = "portion"
    /\ db' = SortByName(Entries(Len(ref_foods)))
    /\ pc' = "dump"
    /\ UNCHANGED <<pipeline, exception, present, output, readVars, scanVars, writeVars, surveyVars,
                   ref_foods, portions, portion_source>>

\* open(OUTPUT_FILE, 'w') and json.dump
WriteJson ==
    /\ pipeline = "reference" /\ pc = "dump"
    /\ output' = "new"
    /\ pc' = "done"
    /\ UNCHANGED <<pipeline, exception, present, readVars, scanVars, writeVars, surveyVars,
                   referenceVars>>

-----------------------------------------------------------------------------

RequiredInputs(p) ==
    IF p = "branded" THEN BrandedInputs
    ELSE IF p = "survey" THEN SurveyInputs
    ELSE ReferenceInputs

Init ==
    /\ pipeline \in {"branded", "survey", "reference"}
    /\ pc = "start"
    /\ exception = ""
    /\ present \in SUBSET RequiredInputs(pipeline)
    /\ output \in {"old", "absent"}
    /\ food_descriptions = <<>>
    /\ branded_rows = <<>>
    /\ branded_info = <<>>
    /\ skipped_no_barcode = 0
    /\ nutrients = <<>>
    /\ matched = {}
    /\ cursor = 1
    /\ branded_foods = <<>>
    /\ row_origin = <<>>
    /\ inserted = 0
    /\ skipped_no_desc = 0
    /\ skipped_no_nutrients = 0
    /\ foods = <<>>
    /\ foods_fts = <<>>
    /\ survey_portions = <<>>
    /\ survey_source = <<>>
    /\ food_count = 0
    /\ portion_count = 0
    /\ ref_foods = <<>>
    /\ portions = <<>>
    /\ portion_source = <<>>
    /\ db = <<>>

Next ==
    \/ CheckInputs
    \/ \E row \in FoodCsvRows : ReadFoodRow(row)
    \/ EndFood
    \/ \E row \in BrandedCsvRows : ReadBrandedRow(row)
    \/ EndBranded
    \/ \E row \in NutrientCsvRows : ReadNutrientRow(row)
    \/ EndNutrient
    \/ ClearOutput
    \/ CreateStore
    \/ WriteBranded
    \/ CommitBranded
    \/ LoadSurvey
    \/ SurveyClearOutput
    \/ SurveyCreateStore
    \/ \E food \in SurveyFoodObjects : InsertSurveyFood(food)
    \/ CommitSurvey
    \/ OpenRefFoods
    \/ \E row \in RefFoodCsvRows : ReadRefFoodRow(row)
    \/ LoadCategories
    \/ LoadFoodCategories
    \/ OpenRefNutrients
    \/ \E row \in RefNutrientCsvRows : ReadRefNutrientRow(row)
    \/ OpenPortions
    \/ \E row \in PortionCsvRows : ReadPortionRow(row)
    \/ BuildDatabase
    \/ WriteJson

Spec == Init /\ [][Next]_vars

-----------------------------------------------------------------------------
(* Properties *)

\* a branded food with a description and a non-empty nutrient profile
Full(fdc_id) ==
    /\ DictGet(food_descriptions, fdc_id, "") # ""
    /\ DOMAIN DictGet(nutrients, fdc_id, <<>>) # {}

\* C1: no two rows of a primary output share their key: barcode in branded_foods,
\* food_code in foods, id in the list written to usda_foods.json.
C1_PrimaryKeyUnique ==
    /\ \A i, j \in 1..Len(branded_foods) :
          i # j => branded_foods[i].barcode # branded_foods[j].barcode
    /\ \A i, j \in 1..Len(foods) : i # j => foods[i].food_code # foods[j].food_code
    /\ \A i, j \in 1..Len(db) : i # j => db[i].id # db[j].id

\* two accepted products with one barcode were both offered to the table
C1_Witness ==
    /\ pipeline = "branded" /\ Len(branded_info) = 2
    /\ branded_info[1][2].barcode = branded_info[2][2].barcode
    /\ inserted = 2 /\ Len(branded_foods) = 1

\* C2: when several branded_food.csv rows carry one barcode and at least one of them is
\* a full record, the finished table holds exactly one row for the barcode and every
\* field of it comes from the first full row in file order.
C2_FirstFullRowWins ==
    (pipeline = "branded" /\ pc = "done") =>
        \A b \in {Strip(branded_rows[i].gtin_upc) : i \in 1..Len(branded_rows)} \ {""} :
            LET carriers == {i \in 1..Len(branded_rows) : Strip(branded_rows[i].gtin_upc) = b}
                full == {i \in carriers : Full(branded_rows[i].fdc_id)}
                stored == {k \in 1..Len(branded_foods) : branded_foods[k].barcode = b}
                first == CHOOSE i \in full : \A j \in full : i <= j
                row == branded_rows[first]
            IN  (Cardinality(carriers) > 1 /\ full # {}) =>
                    /\ Cardinality(stored) = 1
                    /\ \A k \in stored :
                          branded_foods[k] = BrandedRow(BrandedInfo(row),
                                                        food_descriptions[row.fdc_id],
                                                        nutrients[row.fdc_id])

\* C3: a food of the join-target set for which the scan matched no canonical nutrient
\* never reaches the output, and the run raises nothing because of it: every row of
\* branded_foods is the row of a target food with a matched field, every entry of the
\* reference list has a non-empty profile, and the branded run ends in no exception
\* other than the exit for a missing input.
C3_Exclusion ==
    /\ Len(row_origin) = Len(branded_foods)
    /\ \A k \in 1..Len(branded_foods) :
          LET f == row_origin[k]
          IN  /\ f \in target_fdc_ids
              /\ \E c \in BrandedColumns : <<f, c>> \in matched
              /\ branded_foods[k] = BrandedRow(OrderedGet(branded_info, f),
                                               DictGet(food_descriptions, f, ""),
                                               DictGet(nutrients, f, <<>>))
    /\ \A k \in 1..Len(db) :
          /\ db[k].id \in food_ids
          /\ db[k].id \in DOMAIN nutrients
          /\ DOMAIN db[k].nutrients # {}
    /\ pipeline = "branded" => exception \in {"", "SystemExit"}
    /\ (pipeline = "reference" /\ pc \in {"dump", "done"}) => exception = ""

\* a target food with a description and no matched nutrient was skipped, another was stored
C3_Witness ==
    /\ pipeline = "branded" /\ pc = "done"
    /\ skipped_no_nutrients > 0
    /\ Len(branded_foods) > 0
    /\ \E f \in target_fdc_ids : \A c \in BrandedColumns : <<f, c>> \notin matched

\* C4: every row of branded_foods, of foods and of the reference list that a completed
\* run leaves behind has a non-empty description.
C4_DescriptionNonEmpty ==
    pc = "done" =>
    /\ \A k \in 1..Len(branded_foods) : branded_foods[k].description # ""
    /\ \A k \in 1..Len(foods) : foods[k].description # ""
    /\ \A k \in 1..Len(db) : db[k].name # ""

\* C5: every portion a completed run leaves behind has a gram weight above zero and a
\* non-empty description: the rows of the survey table portions and the portions of
\* the reference entries.
C5_PortionsPositive ==
    pc = "done" =>
    /\ \A k \in 1..Len(survey_portions) :
          survey_portions[k].gram_weight > 0 /\ survey_portions[k].description # ""
    /\ \A k \in 1..Len(db) : \A n \in 1..Len(db[k].portions) :
          db[k].portions[n].grams > 0 /\ db[k].portions[n].desc # ""

\* amount or 0, for the amount of a survey nutrient entry
AmountOrZero(n) == IF n.amount = None THEN 0 ELSE n.amount[1]

\* the entries of a survey food that carry the nutrient id
EntriesFor(food, nid) ==
    {i \in 1..Len(food.foodNutrients) : food.foodNutrients[i].id = Some(nid)}

C7_InputsBeforeOutput ==
    [][~(RequiredInputs(pipeline) \subseteq present) => (output' = output /\ pc' # "done")]_vars

\* a run ended for a missing input with the old artifact still in place
C7_Witness ==
    /\ pc = "error" /\ exception \in {"SystemExit", "FileNotFoundError"}
    /\ ~(RequiredInputs(pipeline) \subseteq present)
    /\ output = "old"

\* the positions of branded_info whose food passes both tests of the write loop
Accepted == {i \in 1..Len(branded_info) : Full(branded_info[i][1])}

\* C8 as stated: after a completed build the primary table has as many rows as the
\* run counted accepted entities.
C8_RowCountIsCounter ==
    /\ (pipeline = "branded" /\ pc = "done") => row_count = inserted
    /\ (pipeline = "survey" /\ pc = "done") => Len(foods) = food_count

\* C8 as amended: after a completed build foods has food_count rows; branded_foods has
\* one row per distinct barcode among the accepted foods, inserted counts every accepted
\* food, and so row_count <= inserted, with equality exactly when no two accepted foods
\* share a barcode.
C8_RowCountIsDistinctKeys ==
    /\ (pipeline = "survey" /\ pc = "done") => Len(foods) = food_count
    /\ (pipeline = "branded" /\ pc = "done") =>
          /\ inserted = Cardinality(Accepted)
          /\ row_count = Cardinality({branded_info[i][2].barcode : i \in Accepted})
          /\ row_count <= inserted
          /\ row_count = inserted <=>
                \A i, j \in Accepted :
                    i # j => branded_info[i][2].barcode # branded_info[j][2].barcode

\* a completed branded build that counted more inserts than the table has rows
C8_Witness == pipeline = "branded" /\ pc = "done" /\ inserted > row_count /\ row_count > 0

\* C9: in the survey store every foods row has exactly one foods_fts entry with its
\* food_code, that entry has the row's description, and every foods_fts entry carries
\* the food_code of a foods row.
C9_IndexMatchesTable ==
    /\ \A k \in 1..Len(foods) :
          LET hits == {j \in 1..Len(foods_fts) : foods_fts[j].food_code = foods[k].food_code}
          IN  /\ Cardinality(hits) = 1
              /\ \A j \in hits : foods_fts[j].description = foods[k].description
    /\ \A j \in 1..Len(foods_fts) :
          \E k \in 1..Len(foods) : foods[k].food_code = foods_fts[j].food_code

\* a completed survey build with two foods
C9_Witness == pipeline = "survey" /\ pc = "done" /\ Len(foods) = 2

\* the food a row of food_portion.csv belongs to
PortionFood(k) == ParseInt(portion_source[k].fdc_id)[1]

\* the portion written for the k-th accepted row of food_portion.csv
PortionAt(k) ==
    LET f == PortionFood(k)
        n == Cardinality({j \in 1..k : PortionFood(j) = f})
        e == CHOOSE i \in 1..Len(db) : db[i].id = f
    IN  db[e].portions[n]

\* C10: in the written list a portion keeps its description when the multiplier is 1 or
\* cannot be parsed, and otherwise gets the multiplier as written, one space and the
\* description: "2" and "slice" give "2 slice". Blanks around the result are not held
\* against it.
C10_MultiplierPrefix ==
    (pipeline = "reference" /\ pc = "done") =>
        \A k \in 1..Len(portion_source) :
            LET row == portion_source[k]
                d == PortionText(row)
                m == ParseFloat(row.amount)
            IN  PortionFood(k) \in DOMAIN nutrients =>
                    PortionAt(k).desc =
                        IF Raised(m) \/ m = Some(100000) THEN Strip(d)
                        ELSE Strip(Strip(row.amount) \o " " \o d)

\* an amount column that is present but that float() rejects
Unparseable(s) == s # "" /\ Raised(ParseFloat(s))

\* a nutrient_id column that int() accepts and that the nutrient table maps to a field
KnownId(s, table) == ~Raised(ParseInt(s)) /\ ParseInt(s)[1] \in DOMAIN table

\* C11: in the nutrient scan of the branded and of the reference pipeline a row of a
\* target key and a canonical nutrient whose amount is present but not parseable adds
\* no field to the profile of the key and stores no zero: the profiles are left as they
\* were.
C11_UnparseableIsAbsent ==
    [][/\ \A row \in NutrientCsvRows :
              ( /\ ReadNutrientRow(row)
                /\ row.fdc_id \in target_fdc_ids
                /\ KnownId(row.nutrient_id, NUTRIENT_IDS)
                /\ Unparseable(row.amount) ) => nutrients' = nutrients
       /\ \A row \in RefNutrientCsvRows :
              ( /\ ReadRefNutrientRow(row)
                /\ ParseInt(row.fdc_id)[1] \in food_ids
                /\ KnownId(row.nutrient_id, NUTRIENT_MAP)
                /\ Unparseable(row.amount) ) => nutrients' = nutrients]_vars

\* the step writes v to field c of the profile of key k and leaves every other field of
\* every profile as it was
PutsOnly(k, c, v) ==
    LET before == IF k \in DOMAIN nutrients THEN DOMAIN nutrients[k] ELSE {}
    IN  /\ DOMAIN nutrients' = DOMAIN nutrients \cup {k}
        /\ \A j \in DOMAIN nutrients \ {k} : nutrients'[j] = nutrients[j]
        /\ DOMAIN nutrients'[k] = before \cup {c}
        /\ nutrients'[k][c] = v
        /\ \A d \in before \ {c} : nutrients'[k][d] = nutrients[k][d]

\* the step rejects the row: no profile changes, none is created, the scan goes on
Rejects == nutrients' = nutrients /\ pc' = pc /\ exception' = exception

\* C12: every step of the nutrient scan is a step of the last-write-wins accumulator. A
\* row of a target key k whose nutrient id is mapped to field c sets the value of c in
\* the profile of k to its amount (numeric amounts; the reference pipeline keeps four
\* decimals) and changes nothing else, so after the scan the value is that of the last
\* such row; a row of a key outside the target set, or of an unknown nutrient id,
\* changes and creates no profile and is rejected whatever its amount column holds.
C12_LastWriteWins ==
    [][/\ \A row \in NutrientCsvRows : ReadNutrientRow(row) =>
              IF row.fdc_id \in target_fdc_ids /\ KnownId(row.nutrient_id, NUTRIENT_IDS)
              THEN ~Raised(ParseFloat(row.amount)) =>
                      PutsOnly(row.fdc_id, NUTRIENT_IDS[ParseInt(row.nutrient_id)[1]],
                               ParseFloat(row.amount)[1])
              ELSE Rejects
       /\ \A row \in RefNutrientCsvRows : ReadRefNutrientRow(row) =>
              IF ParseInt(row.fdc_id)[1] \in food_ids
                 /\ KnownId(row.nutrient_id, NUTRIENT_MAP)
              THEN ~Raised(ParseFloat(row.amount)) =>
                      PutsOnly(ParseInt(row.fdc_id)[1],
                               NUTRIENT_MAP[ParseInt(row.nutrient_id)[1]],
                               Round(ParseFloat(row.amount)[1], 4))
              ELSE Rejects]_vars

====
